---- MODULE Spec2Model ----
(***************************************************************************)
(* Model of the telescope dashboard core: the Todoist client               *)
(* (src/src/services/todoist.ts), its date formatter, and the App shell's  *)
(* background style (src/src/App.tsx), over browser local storage.         *)
(*                                                                         *)
(* Text is modelled as a sequence of one-character strings, so that        *)
(* template literals are concatenations and split/parse work on the        *)
(* characters.  JavaScript values are records [type, val].                 *)
(***************************************************************************)
EXTENDS Integers, Sequences, FiniteSets, TLC

VARIABLES
    storage,    \* localStorage: key -> null or a string
    pc,         \* per caller: "idle" or "awaiting" (suspended at `await fetch`)
    opOf,       \* per caller: the client function that is running
    inflight,   \* per caller: the fetch requests the running invocation issued
    settled,    \* the last settled promise handed back to a caller
    style,      \* the `background` prop App rendered last
    due,        \* the TodoistDue passed to relativeDateTime
    now,        \* the clock read by `new Date()`
    display     \* the completion of relativeDateTime(due)

vars == <<storage, pc, opOf, inflight, settled, style, due, now, display>>

(***************************************************************************)
(* Bounds                                                                  *)
(***************************************************************************)
\* Number of UI callers that may each have one client call in flight.
MaxCallers == 2

Callers == 1..MaxCallers

(***************************************************************************)
(* JavaScript values                                                       *)
(***************************************************************************)
Null == [type |-> "null", val |-> <<>>]
Undefined == [type |-> "undefined", val |-> <<>>]
Str(s) == [type |-> "string", val |-> s]
EmptyObject == [type |-> "object", val |-> <<>>]
Arr(xs) == [type |-> "array", val |-> xs]

\* ToBoolean: null, undefined and "" are falsy; every other string and every
\* object (a Date, even an invalid one, included) is truthy.
Truthy(v) ==
    CASE v.type = "string" -> v.val # <<>>
      [] v.type \in {"null", "undefined"} -> FALSE
      [] OTHER -> TRUE

\* Template-literal interpolation `${v}`.
ToText(v) ==
    CASE v.type = "string" -> v.val
      [] v.type = "null" -> <<"n","u","l","l">>
      [] OTHER -> <<"u","n","d","e","f","i","n","e","d">>

\* Completion of a synchronous call.
Return(v) == [thrown |-> FALSE, value |-> v, error |-> [name |-> "", message |-> ""]]
Throw(n, m) == [thrown |-> TRUE, value |-> Undefined, error |-> [name |-> n, message |-> m]]

\* Settlement of a promise.
Fulfilled(v) == [state |-> "fulfilled", value |-> v, error |-> [name |-> "", message |-> ""]]
Rejected(e) == [state |-> "rejected", value |-> Undefined, error |-> e]

(***************************************************************************)
(* Local storage                                                           *)
(***************************************************************************)
ApiKeyName == "todoistApiKey"
FilterName == "todoistFilter"
BackgroundName == "backgroundImgUrl"
StorageKeys == {ApiKeyName, FilterName, BackgroundName}

K1 == <<"k","1">>
K2 == <<"k","2">>
P1 == <<"p","1">>
IMG == <<"a",".","p","n","g">>

\* The strings the settings panel may write under each key.
Writable(k) ==
    CASE k = ApiKeyName -> {<<>>, K1, K2}
      [] k = FilterName -> {<<>>, P1}
      [] OTHER -> {<<>>, IMG}

getItem(st, k) == st[k]

(***************************************************************************)
(* Todoist client                                                          *)
(***************************************************************************)
BASE_URL == <<"h","t","t","p","s",":","/","/","a","p","i",".","t","o","d","o","i","s","t",".","c","o","m","/","r","e","s","t","/","v","2">>
DEFAULT_FILTER == <<"(","t","o","d","a","y"," ","|"," ","o","v","e","r","d","u","e",")"," ","&"," ","!","a","s","s","i","g","n","e","d"," ","t","o",":"," ","o","t","h","e","r","s">>
TasksFilterPrefix == <<"t","a","s","k","s","?","f","i","l","t","e","r","=">>
ProjectsEndpoint == <<"p","r","o","j","e","c","t","s">>
TasksPrefix == <<"t","a","s","k","s","/">>
CloseSuffix == <<"/","c","l","o","s","e">>
BearerPrefix == <<"B","e","a","r","e","r"," ">>
NoApiKeyMessage == "No Todoist API key."

TaskIds == {<<"7">>}

\* Mutant: only an absent key is refused, the empty string is sent as a token.
getApiKeyNullOnly(st) ==
    LET apiKey == getItem(st, ApiKeyName) IN
    IF apiKey.type = "null" THEN Throw("Error", NoApiKeyMessage) ELSE Return(apiKey.val)

\* Mutant: the token is read from the wrong storage key.
getApiKeyWrongKey(st) ==
    LET apiKey == getItem(st, FilterName) IN
    IF ~Truthy(apiKey) THEN Throw("Error", NoApiKeyMessage) ELSE Return(apiKey.val)

getApiKey(st) ==
    LET apiKey == getItem(st, ApiKeyName) IN
    IF ~Truthy(apiKey) THEN Throw("Error", NoApiKeyMessage) ELSE Return(apiKey.val)

\* The part of an async request function that runs before its first await:
\* the fetch calls it made, or the error it threw before making any.
Issued(reqs) == [fetches |-> reqs, thrown |-> FALSE, error |-> [name |-> "", message |-> ""]]
Failed(e) == [fetches |-> <<>>, thrown |-> TRUE, error |-> e]

Request(method, endpoint, token) ==
    [method |-> method,
     url |-> BASE_URL \o <<"/">> \o endpoint \o <<"?">>,
     authorization |-> BearerPrefix \o token,
     contentType |-> "application/json"]

\* Mutant: a second fetch of the same request.
getDataTwice(endpoint, st) ==
    LET key == getApiKey(st) IN
    IF key.thrown THEN Failed(key.error)
    ELSE Issued(<<Request("GET", endpoint, key.value), Request("GET", endpoint, key.value)>>)

getData(endpoint, st) ==
    LET key == getApiKey(st) IN
    IF key.thrown THEN Failed(key.error)
    ELSE Issued(<<Request("GET", endpoint, key.value)>>)

postData(endpoint, st) ==
    LET key == getApiKey(st) IN
    IF key.thrown THEN Failed(key.error)
    ELSE Issued(<<Request("POST", endpoint, key.value)>>)

getTasks(st) ==
    LET stored == getItem(st, FilterName)
        filter == IF Truthy(stored) THEN stored.val ELSE DEFAULT_FILTER
    IN getData(TasksFilterPrefix \o filter, st)

getProjects(st) == getData(ProjectsEndpoint, st)

closeTask(taskId, st) == postData(TasksPrefix \o taskId \o CloseSuffix, st)

(***************************************************************************)
(* HTTP responses and Response.json()                                      *)
(***************************************************************************)
IsDigit(c) == c \in {"0","1","2","3","4","5","6","7","8","9"}

DigitVal(c) ==
    CASE c = "0" -> 0 [] c = "1" -> 1 [] c = "2" -> 2 [] c = "3" -> 3 [] c = "4" -> 4
      [] c = "5" -> 5 [] c = "6" -> 6 [] c = "7" -> 7 [] c = "8" -> 8 [] OTHER -> 9

\* JSON.parse on the texts the model's server sends: an empty object, or an
\* array of one-digit numbers; everything else (the empty text included) is
\* a SyntaxError.
JsonParse(text) ==
    LET n == Len(text)
        inner == SubSeq(text, 2, n - 1)
        m == Len(inner)
        isList == /\ m % 2 = 1
                  /\ \A i \in 1..m : IF i % 2 = 1 THEN IsDigit(inner[i]) ELSE inner[i] = ","
    IN  IF text = <<"{","}">> THEN Return(EmptyObject)
        ELSE IF n >= 2 /\ text[1] = "[" /\ text[n] = "]" /\ (m = 0 \/ isList)
             THEN Return(Arr([i \in 1..((m + 1) \div 2) |-> DigitVal(inner[2 * i - 1])]))
             ELSE Throw("SyntaxError", "Unexpected end of JSON input")

\* response.json()
json(response) ==
    LET p == JsonParse(response.body) IN
    IF p.thrown THEN Rejected(p.error) ELSE Fulfilled(p.value)

Response(status, statusText, body) == [status |-> status, statusText |-> statusText, body |-> body]

NoResponse == Response(0, "", <<>>)

\* What the server may answer.  A 204 response has no body.
Responses ==
    { Response(200, "OK", <<"[","1",",","2","]">>),
      Response(200, "OK", <<"{","}">>),
      Response(200, "OK", <<"[","1",",">>),
      Response(204, "No Content", <<>>),
      Response(201, "Created", <<"{","}">>),
      Response(404, "Not Found", <<"[","1",",","2","]">>) }

\* Mutant: every 2xx status is taken as success.
getDataResumeAny2xx(response) ==
    IF response.status \in {200, 201} THEN json(response)
    ELSE IF response.status = 204 THEN Fulfilled(EmptyObject)
    ELSE Rejected([name |-> "Error", message |-> response.statusText])

\* Mutant: the decoded body is wrapped in an array.
getDataResumeWrapped(response) ==
    IF response.status = 200
    THEN LET r == json(response) IN
         IF r.state = "fulfilled" THEN Fulfilled(Arr(<<r.value>>)) ELSE r
    ELSE IF response.status = 204 THEN Fulfilled(EmptyObject)
    ELSE Rejected([name |-> "Error", message |-> response.statusText])

\* getData after `await fetch(...)`.
getDataResume(response) ==
    IF response.status = 200 THEN json(response)
    ELSE IF response.status = 204 THEN Fulfilled(EmptyObject)
    ELSE Rejected([name |-> "Error", message |-> response.statusText])

\* postData after `await fetch(...)`.
postDataResume(response) ==
    IF response.status = 200 \/ response.status = 204 THEN json(response)
    ELSE Rejected([name |-> "Error", message |-> response.statusText])

Resume(op, response) ==
    IF op = "closeTask" THEN postDataResume(response) ELSE getDataResume(response)

NetworkError == [name |-> "TypeError", message |-> "Failed to fetch"]

(***************************************************************************)
(* Client actions                                                          *)
(***************************************************************************)
Settlement(op, n, response, outcome) ==
    [op |-> op, fetched |-> n, response |-> response, outcome |-> outcome]

NotSettled == Settlement("none", 0, NoResponse, Fulfilled(Undefined))

\* A caller invokes a client function; it runs up to its first await.
Invoke(c, op, started) ==
    /\ pc[c] = "idle"
    /\ IF started.thrown
       THEN /\ settled' = Settlement(op, Len(started.fetches), NoResponse, Rejected(started.error))
            /\ UNCHANGED <<pc, opOf, inflight>>
       ELSE /\ pc' = [pc EXCEPT ![c] = "awaiting"]
            /\ opOf' = [opOf EXCEPT ![c] = op]
            /\ inflight' = [inflight EXCEPT ![c] = started.fetches]
            /\ UNCHANGED settled
    /\ UNCHANGED <<storage, style, due, now, display>>

CallGetTasks(c) == Invoke(c, "getTasks", getTasks(storage))

CallGetProjects(c) == Invoke(c, "getProjects", getProjects(storage))

CallCloseTask(c, taskId) == Invoke(c, "closeTask", closeTask(taskId, storage))

\* The awaited fetch resolves and the function runs to its end.
Respond(c, response) ==
    /\ pc[c] = "awaiting"
    /\ settled' = Settlement(opOf[c], Len(inflight[c]), response, Resume(opOf[c], response))
    /\ pc' = [pc EXCEPT ![c] = "idle"]
    /\ opOf' = [opOf EXCEPT ![c] = "none"]
    /\ inflight' = [inflight EXCEPT ![c] = <<>>]
    /\ UNCHANGED <<storage, style, due, now, display>>

\* The awaited fetch rejects (no response); the rejection propagates.
FetchFails(c) ==
    /\ pc[c] = "awaiting"
    /\ settled' = Settlement(opOf[c], Len(inflight[c]), NoResponse, Rejected(NetworkError))
    /\ pc' = [pc EXCEPT ![c] = "idle"]
    /\ opOf' = [opOf EXCEPT ![c] = "none"]
    /\ inflight' = [inflight EXCEPT ![c] = <<>>]
    /\ UNCHANGED <<storage, style, due, now, display>>

(***************************************************************************)
(* Settings writes                                                         *)
(***************************************************************************)
SetItem(k, s) ==
    /\ storage' = [storage EXCEPT ![k] = Str(s)]
    /\ UNCHANGED <<pc, opOf, inflight, settled, style, due, now, display>>

RemoveItem(k) ==
    /\ storage' = [storage EXCEPT ![k] = Null]
    /\ UNCHANGED <<pc, opOf, inflight, settled, style, due, now, display>>

NoDue == [date |-> Str(<<>>), datetime |-> Undefined]
NoDisplay == Return(Undefined)

Init ==
    /\ storage = [k \in StorageKeys |-> Null]
    /\ pc = [c \in Callers |-> "idle"]
    /\ opOf = [c \in Callers |-> "none"]
    /\ inflight = [c \in Callers |-> <<>>]
    /\ settled = NotSettled
    /\ style = Undefined
    /\ due = NoDue
    /\ now = 0
    /\ display = NoDisplay

ClientKeys == {ApiKeyName, FilterName}

Next ==
    \/ \E k \in ClientKeys : \E s \in Writable(k) : SetItem(k, s)
    \/ \E k \in ClientKeys : RemoveItem(k)
    \/ \E c \in Callers : CallGetTasks(c)
    \/ \E c \in Callers : CallGetProjects(c)
    \/ \E c \in Callers : \E t \in TaskIds : CallCloseTask(c, t)
    \/ \E c \in Callers : \E r \in Responses : Respond(c, r)
    \/ \E c \in Callers : FetchFails(c)

Spec == Init /\ [][Next]_vars

(***************************************************************************)
(* URL query as the server reads it (WHATWG application/x-www-form-        *)
(* urlencoded parsing): the text after the first "?", cut at every "&",    *)
(* each piece cut at its first "=".  Percent-encoding by fetch and         *)
(* decoding by the server cancel out and are left out.                     *)
(***************************************************************************)
IndexOfChar(s, ch) ==
    LET hits == {i \in 1..Len(s) : s[i] = ch} IN
    IF hits = {} THEN 0 ELSE CHOOSE i \in hits : \A j \in hits : i <= j

RECURSIVE SplitOnChar(_, _)
SplitOnChar(s, ch) ==
    LET i == IndexOfChar(s, ch) IN
    IF i = 0 THEN <<s>>
    ELSE <<SubSeq(s, 1, i - 1)>> \o SplitOnChar(SubSeq(s, i + 1, Len(s)), ch)

QueryOf(url) ==
    LET q == IndexOfChar(url, "?") IN
    IF q = 0 THEN <<>> ELSE SubSeq(url, q + 1, Len(url))

ParamName(piece) ==
    LET e == IndexOfChar(piece, "=") IN
    IF e = 0 THEN piece ELSE SubSeq(piece, 1, e - 1)

ParamValue(piece) ==
    LET e == IndexOfChar(piece, "=") IN
    IF e = 0 THEN <<>> ELSE SubSeq(piece, e + 1, Len(piece))

\* The value of the first query parameter called `name`, or null.
QueryValue(url, name) ==
    LET pieces == SplitOnChar(QueryOf(url), "&")
        hits == {i \in 1..Len(pieces) : ParamName(pieces[i]) = name}
    IN  IF hits = {} THEN Null
        ELSE Str(ParamValue(pieces[CHOOSE i \in hits : \A j \in hits : i <= j]))

FilterParam == <<"f","i","l","t","e","r">>

(***************************************************************************)
(* Claims about the Todoist client                                         *)
(***************************************************************************)
MissingCredential == Rejected([name |-> "Error", message |-> NoApiKeyMessage])

NoKeyStored == ~Truthy(storage[ApiKeyName])

\* The three client functions, started in storage `st`.
Started(st) ==
    {getTasks(st), getProjects(st)} \cup {closeTask(t, st) : t \in TaskIds}

\* A step in which a failing invocation settled without suspending.
FailedAtOnce == settled' # settled /\ pc' = pc

\* C1: while no API key is stored (absent or the empty string), each of
\* getTasks, getProjects and closeTask fails with the error "No Todoist API
\* key." and calls fetch zero times: no step taken in such a state issues
\* a request, and an invocation that settles at once is rejected with that
\* error after zero fetches.
C1_MissingCredential ==
    /\ [](NoKeyStored =>
            \A s \in Started(storage) :
                /\ s.thrown
                /\ s.error = [name |-> "Error", message |-> NoApiKeyMessage]
                /\ s.fetches = <<>>)
    /\ [][NoKeyStored =>
            /\ \A c \in Callers : Len(inflight'[c]) <= Len(inflight[c])
            /\ \A c \in Callers : pc[c] = "idle" => pc'[c] = "idle"
            /\ FailedAtOnce =>
                 /\ settled'.outcome = MissingCredential
                 /\ settled'.fetched = 0]_vars

C1_Witness ==
    /\ NoKeyStored
    /\ settled.op = "closeTask"
    /\ settled.outcome = MissingCredential
    /\ settled.fetched = 0
    /\ \A c \in Callers : inflight[c] = <<>>

\* C2: a response with status 204 makes every client operation return an
\* empty object, never an error.
C2_NoContentIsEmptyObject ==
    (settled.op # "none" /\ settled.response.status = 204)
        => settled.outcome = Fulfilled(EmptyObject)

\* C3: a response whose status is neither 200 nor 204 makes the operation
\* reject with an error whose message is the response's status text, and
\* no value is returned.
C3_OtherStatusRejects ==
    (/\ settled.op # "none"
     /\ settled.response # NoResponse
     /\ settled.response.status \notin {200, 204})
        => /\ settled.outcome.state = "rejected"
           /\ settled.outcome.error.message = settled.response.statusText
           /\ settled.outcome.value = Undefined

C3_Witness ==
    /\ settled.op = "getTasks"
    /\ settled.response.status = 201
    /\ settled.outcome = Rejected([name |-> "Error", message |-> "Created"])

\* C4: the filter query value getTasks sends is exactly the stored filter,
\* or exactly the default filter when none is stored, with nothing appended
\* to or removed from it in the requested URL.
C4_FilterSentExactly ==
    [][\A c \in Callers :
          LET stored == storage[FilterName] IN
          (/\ pc[c] = "idle" /\ pc'[c] = "awaiting"
           /\ opOf'[c] = "getTasks"
           /\ (stored = Null \/ Truthy(stored)))
             => /\ Len(inflight'[c]) = 1
                /\ QueryValue(inflight'[c][1].url, FilterParam)
                     = Str(IF stored = Null THEN DEFAULT_FILTER ELSE stored.val)]_vars

\* C5: the bearer token is read from storage at the moment of each call and
\* never cached: an invocation that suspends has sent exactly the token
\* stored when it was called, a request in flight keeps it, and a call made
\* while no key is stored is rejected with the missing-credential error
\* whatever happened before.
C5_TokenReadAtCallTime ==
    [][\A c \in Callers :
          /\ (pc[c] = "idle" /\ pc'[c] = "awaiting") =>
                /\ Truthy(storage[ApiKeyName])
                /\ inflight'[c] # <<>>
                /\ \A i \in 1..Len(inflight'[c]) :
                      inflight'[c][i].authorization = BearerPrefix \o storage[ApiKeyName].val
          /\ (pc[c] = "awaiting" /\ pc'[c] = "awaiting") => inflight'[c] = inflight[c]
          /\ (NoKeyStored /\ FailedAtOnce) => settled'.outcome = MissingCredential]_vars

C5_Witness ==
    \E c, d \in Callers :
        /\ pc[c] = "awaiting" /\ pc[d] = "awaiting"
        /\ inflight[c][1].authorization = BearerPrefix \o K1
        /\ inflight[d][1].authorization = BearerPrefix \o K2
        /\ storage[ApiKeyName] = Null
        /\ settled.outcome = MissingCredential

\* C8: a response with status 200 makes every client operation return the
\* decoded JSON body unchanged.
C8_OkReturnsBody ==
    (settled.op # "none" /\ settled.response.status = 200) =>
        /\ settled.response.body = <<"[","1",",","2","]">>
              => settled.outcome = Fulfilled(Arr(<<1, 2>>))
        /\ settled.response.body = <<"{","}">>
              => settled.outcome = Fulfilled(EmptyObject)

C8_Witness ==
    /\ settled.op = "closeTask"
    /\ settled.response.status = 200
    /\ settled.response.body = <<"[","1",",","2","]">>
    /\ settled.outcome = Fulfilled(Arr(<<1, 2>>))

\* C9: no retry: an invocation issues at most one fetch, exactly one while
\* it is suspended, and when its response or failure arrives it settles
\* with a result or an error and leaves no request behind.
C9_NoRetry ==
    /\ \A c \in Callers :
          /\ Len(inflight[c]) <= 1
          /\ pc[c] = "awaiting" <=> Len(inflight[c]) = 1
    /\ settled.fetched <= 1
    /\ settled.response # NoResponse => settled.fetched = 1
    /\ settled.outcome.state \in {"fulfilled", "rejected"}

C9_Witness ==
    /\ settled.op = "getProjects"
    /\ settled.fetched = 1
    /\ settled.response.status = 404
    /\ settled.outcome.state = "rejected"
    /\ \A c \in Callers : pc[c] = "idle" /\ inflight[c] = <<>>

(***************************************************************************)
(* Calendar arithmetic behind Date: seconds since 1970-01-01T00:00:00Z.    *)
(* The browser's time zone is taken to be UTC.                             *)
(***************************************************************************)
DaysFromCivil(y, m, d) ==
    LET yy == IF m <= 2 THEN y - 1 ELSE y
        era == yy \div 400
        yoe == yy - era * 400
        mp == IF m > 2 THEN m - 3 ELSE m + 9
        doy == (153 * mp + 2) \div 5 + d - 1
        doe == yoe * 365 + yoe \div 4 - yoe \div 100 + doy
    IN  era * 146097 + doe - 719468

CivilFromDays(days) ==
    LET z == days + 719468
        era == z \div 146097
        doe == z - era * 146097
        yoe == (doe - doe \div 1460 + doe \div 36524 - doe \div 146096) \div 365
        doy == doe - (365 * yoe + yoe \div 4 - yoe \div 100)
        mp == (5 * doy + 2) \div 153
        d == doy - (153 * mp + 2) \div 5 + 1
        m == IF mp < 10 THEN mp + 3 ELSE mp - 9
        y == yoe + era * 400 + (IF m <= 2 THEN 1 ELSE 0)
    IN  [year |-> y, month |-> m, day |-> d]

IsLeapYear(y) == y % 400 = 0 \/ (y % 4 = 0 /\ y % 100 # 0)

DaysInMonth(y, m) ==
    CASE m = 2 -> IF IsLeapYear(y) THEN 29 ELSE 28
      [] m \in {4, 6, 9, 11} -> 30
      [] OTHER -> 31

TimeOf(y, m, d, hh, mm, ss) == DaysFromCivil(y, m, d) * 86400 + hh * 3600 + mm * 60 + ss

ValidDate(t) == [type |-> "date", val |-> [valid |-> TRUE, time |-> t]]
InvalidDate == [type |-> "date", val |-> [valid |-> FALSE, time |-> 0]]

(***************************************************************************)
(* date-fns parse(dateString, formatString, referenceDate) for the two     *)
(* layouts the formatter uses.  A numeric token takes up to its width in   *)
(* digits, a quoted or punctuation token must match exactly, XXX is "Z" or *)
(* a sign with HH:mm; any mismatch, leftover text or out-of-range field    *)
(* gives an Invalid Date (an object, not an exception).                    *)
(***************************************************************************)
Num(field, width) == [kind |-> "num", field |-> field, width |-> width, ch |-> ""]
Lit(ch) == [kind |-> "lit", field |-> "", width |-> 0, ch |-> ch]
Offset == [kind |-> "offset", field |-> "", width |-> 0, ch |-> ""]

\* "yyyy-MM-dd"
DateLayout == <<Num("year", 4), Lit("-"), Num("month", 2), Lit("-"), Num("day", 2)>>

\* "yyyy-MM-dd'T'HH:mm:ssXXX"
DateTimeLayout ==
    DateLayout \o <<Lit("T"), Num("hour", 2), Lit(":"), Num("minute", 2), Lit(":"),
                    Num("second", 2), Offset>>

\* How many digits, at most `width`, start at position `pos` of `s`.
DigitRun(s, pos, width) ==
    LET ok == {k \in 0..width :
                 \A i \in 0..(k - 1) : pos + i <= Len(s) /\ IsDigit(s[pos + i])}
    IN  CHOOSE k \in ok : \A j \in ok : j <= k

RECURSIVE NumberAt(_, _, _)
NumberAt(s, pos, k) ==
    IF k = 0 THEN 0 ELSE NumberAt(s, pos, k - 1) * 10 + DigitVal(s[pos + k - 1])

NoFields ==
    [year |-> 0, month |-> 1, day |-> 1, hour |-> 0, minute |-> 0, second |-> 0, offset |-> 0]

\* One token of the layout consumed at position st.pos.
ParseToken(s, tok, st) ==
    IF ~st.ok THEN st
    ELSE IF tok.kind = "num" THEN
        LET k == DigitRun(s, st.pos, tok.width) IN
        IF k = 0 THEN [st EXCEPT !.ok = FALSE]
        ELSE [st EXCEPT !.pos = st.pos + k,
                        !.fields = [st.fields EXCEPT ![tok.field] = NumberAt(s, st.pos, k)]]
    ELSE IF tok.kind = "lit" THEN
        IF st.pos <= Len(s) /\ s[st.pos] = tok.ch
        THEN [st EXCEPT !.pos = st.pos + 1]
        ELSE [st EXCEPT !.ok = FALSE]
    ELSE
        IF st.pos <= Len(s) /\ s[st.pos] = "Z"
        THEN [st EXCEPT !.pos = st.pos + 1]
        ELSE IF /\ st.pos + 5 <= Len(s)
                /\ s[st.pos] \in {"+", "-"}
                /\ DigitRun(s, st.pos + 1, 2) = 2
                /\ s[st.pos + 3] = ":"
                /\ DigitRun(s, st.pos + 4, 2) = 2
        THEN LET mins == NumberAt(s, st.pos + 1, 2) * 60 + NumberAt(s, st.pos + 4, 2) IN
             [st EXCEPT !.pos = st.pos + 6,
                        !.fields = [st.fields EXCEPT
                                       !.offset = IF s[st.pos] = "+" THEN mins ELSE 0 - mins]]
        ELSE [st EXCEPT !.ok = FALSE]

RECURSIVE ParseTokens(_, _, _, _)
ParseTokens(s, layout, i, st) ==
    IF i > Len(layout) THEN st
    ELSE ParseTokens(s, layout, i + 1, ParseToken(s, layout[i], st))

parse(dateString, layout) ==
    LET st == ParseTokens(dateString, layout, 1, [ok |-> TRUE, pos |-> 1, fields |-> NoFields])
        f == st.fields
    IN  IF /\ st.ok
           /\ st.pos = Len(dateString) + 1
           /\ f.month \in 1..12
           /\ f.day \in 1..DaysInMonth(f.year, f.month)
           /\ f.hour \in 0..23
           /\ f.minute \in 0..59
           /\ f.second \in 0..59
        THEN ValidDate(TimeOf(f.year, f.month, f.day, f.hour, f.minute, f.second)
                         - f.offset * 60)
        ELSE InvalidDate

(***************************************************************************)
(* date-fns formatRelative(date, baseDate), en-US locale                   *)
(***************************************************************************)
DigitChar(n) ==
    CASE n = 0 -> "0" [] n = 1 -> "1" [] n = 2 -> "2" [] n = 3 -> "3" [] n = 4 -> "4"
      [] n = 5 -> "5" [] n = 6 -> "6" [] n = 7 -> "7" [] n = 8 -> "8" [] OTHER -> "9"

Pad2(n) == <<DigitChar((n \div 10) % 10), DigitChar(n % 10)>>
Pad4(n) == Pad2(n \div 100) \o Pad2(n % 100)

Decimal(n) == IF n < 10 THEN <<DigitChar(n)>> ELSE Pad2(n)

\* eeee
WeekdayName(days) ==
    LET dow == (days + 4) % 7 IN
    CASE dow = 0 -> <<"S","u","n","d","a","y">>
      [] dow = 1 -> <<"M","o","n","d","a","y">>
      [] dow = 2 -> <<"T","u","e","s","d","a","y">>
      [] dow = 3 -> <<"W","e","d","n","e","s","d","a","y">>
      [] dow = 4 -> <<"T","h","u","r","s","d","a","y">>
      [] dow = 5 -> <<"F","r","i","d","a","y">>
      [] OTHER -> <<"S","a","t","u","r","d","a","y">>

\* p: "h:mm a"
ClockTime(t) ==
    LET secs == t % 86400
        hh == secs \div 3600
        mm == (secs % 3600) \div 60
        h12 == IF hh % 12 = 0 THEN 12 ELSE hh % 12
    IN  Decimal(h12) \o <<":">> \o Pad2(mm)
          \o (IF hh < 12 THEN <<" ","A","M">> ELSE <<" ","P","M">>)

\* P: "MM/dd/yyyy"
ShortDate(t) ==
    LET c == CivilFromDays(t \div 86400) IN
    Pad2(c.month) \o <<"/">> \o Pad2(c.day) \o <<"/">> \o Pad4(c.year)

differenceInCalendarDays(t, base) == (t \div 86400) - (base \div 86400)

AtWord == <<" ","a","t"," ">>

formatRelative(date, baseTime) ==
    IF ~date.valid THEN Throw("RangeError", "Invalid time value")
    ELSE
        LET t == date.time
            diff == differenceInCalendarDays(t, baseTime)
            text ==
                IF diff < -6 THEN ShortDate(t)
                ELSE IF diff < -1
                     THEN <<"l","a","s","t"," ">> \o WeekdayName(t \div 86400) \o AtWord \o ClockTime(t)
                ELSE IF diff < 0
                     THEN <<"y","e","s","t","e","r","d","a","y">> \o AtWord \o ClockTime(t)
                ELSE IF diff < 1
                     THEN <<"t","o","d","a","y">> \o AtWord \o ClockTime(t)
                ELSE IF diff < 2
                     THEN <<"t","o","m","o","r","r","o","w">> \o AtWord \o ClockTime(t)
                ELSE IF diff < 7
                     THEN WeekdayName(t \div 86400) \o AtWord \o ClockTime(t)
                ELSE ShortDate(t)
        IN  Return(Str(text))

(***************************************************************************)
(* String.prototype.split(separator)[0]: the text before the first         *)
(* occurrence of the separator, or the whole text when there is none.      *)
(***************************************************************************)
OccursAt(s, sep, i) ==
    /\ i + Len(sep) - 1 <= Len(s)
    /\ \A j \in 1..Len(sep) : s[i + j - 1] = sep[j]

Contains(s, sep) == \E i \in 1..Len(s) : OccursAt(s, sep, i)

SplitFirst(s, sep) ==
    LET hits == {i \in 1..Len(s) : OccursAt(s, sep, i)} IN
    IF hits = {} THEN s
    ELSE SubSeq(s, 1, (CHOOSE i \in hits : \A j \in hits : i <= j) - 1)

AtSep == <<" ","a","t">>

(***************************************************************************)
(* Date formatter                                                          *)
(***************************************************************************)
relativeDateTime(d, clock) ==
    LET dueDateTime == IF Truthy(d.datetime) THEN parse(d.datetime.val, DateTimeLayout)
                       ELSE Undefined
    IN  IF Truthy(dueDateTime) THEN formatRelative(dueDateTime.val, clock)
        ELSE LET dueDate == IF Truthy(d.date) THEN parse(d.date.val, DateLayout)
                            ELSE Undefined
             IN  IF Truthy(dueDate)
                 THEN LET f == formatRelative(dueDate.val, clock) IN
                      IF f.thrown THEN f ELSE Return(Str(SplitFirst(f.value.val, AtSep)))
                 ELSE Return(Str(<<>>))

\* The due descriptors and clock readings the formatter is exercised with.
DateTexts ==
    { <<>>,
      <<"2","0","2","4","-","0","3","-","1","0">>,
      <<"2","0","2","4","-","0","3","-","0","9">>,
      <<"2","0","2","4","-","0","3","-","0","6">>,
      <<"2","0","2","4","-","0","3","-","1","6">>,
      <<"2","0","2","4","-","0","4","-","2","0">>,
      <<"2","0","2","4","-","0","2","-","3","0">>,
      <<"s","o","o","n">> }

DateTimeTexts ==
    { <<>>,
      <<"2","0","2","4","-","0","3","-","1","0","T","1","4",":","3","0",":","0","0","+","0","0",":","0","0">>,
      <<"2","0","2","4","-","0","3","-","1","1","T","0","8",":","0","5",":","0","0","+","0","2",":","0","0">>,
      <<"2","0","2","4","-","0","3","-","1","0","T","1","4",":","3","0",":","0","0","Z">>,
      <<"2","0","2","4","-","0","3","-","1","0","T","1","4",":","3","0",":","0","0">>,
      <<"s","o","o","n">> }

Dues ==
    [date : {Str(t) : t \in DateTexts},
     datetime : {Undefined} \cup {Str(t) : t \in DateTimeTexts}]

Nows == {TimeOf(2024, 3, 10, 9, 0, 0), TimeOf(2024, 3, 11, 23, 30, 0)}

Format ==
    /\ display = NoDisplay
    /\ display' = relativeDateTime(due, now)
    /\ UNCHANGED <<storage, pc, opOf, inflight, settled, style, due, now>>

InitDate ==
    /\ storage = [k \in StorageKeys |-> Null]
    /\ pc = [c \in Callers |-> "idle"]
    /\ opOf = [c \in Callers |-> "none"]
    /\ inflight = [c \in Callers |-> <<>>]
    /\ settled = NotSettled
    /\ style = Undefined
    /\ due \in Dues
    /\ now \in Nows
    /\ display = NoDisplay

NextDate == Format

SpecDate == InitDate /\ [][NextDate]_vars

(***************************************************************************)
(* Claims about the date formatter                                         *)
(***************************************************************************)
Formatted == display # NoDisplay

DateTimeParses == due.datetime.type = "string" /\ parse(due.datetime.val, DateTimeLayout).val.valid

DateParses == due.date.type = "string" /\ parse(due.date.val, DateLayout).val.valid

\* C6: relativeDateTime never raises, and when neither datetime nor date
\* parses it returns the empty string.
C6_NeverRaises ==
    Formatted =>
        /\ ~display.thrown
        /\ (~DateTimeParses /\ ~DateParses) => display = Return(Str(<<>>))

\* C7: datetime takes precedence: when datetime parses the result is its
\* full relative format whatever date holds; otherwise, when date parses,
\* the result is the relative format of date cut before the first " at",
\* and holds no clock-time suffix.
C7_DatetimePrecedence ==
    Formatted =>
        IF DateTimeParses
        THEN display = formatRelative(parse(due.datetime.val, DateTimeLayout).val, now)
        ELSE DateParses =>
               /\ ~display.thrown
               /\ display.value.val
                    = SplitFirst(formatRelative(parse(due.date.val, DateLayout).val, now).value.val,
                                 AtSep)
               /\ ~Contains(display.value.val, AtSep)

(***************************************************************************)
(* App shell                                                               *)
(***************************************************************************)
UrlOpen == <<"u","r","l","(">>
UrlClose == <<")"," ","n","o","-","r","e","p","e","a","t"," ","c","e","n","t","e","r"," ","c","e","n","t","e","r"," ","f","i","x","e","d">>

\* The `background` prop App() computes from storage `st`.
App(st) ==
    LET backgroundImg == getItem(st, BackgroundName)
        imageStyle == IF backgroundImg # Str(<<>>)
                      THEN Str(UrlOpen \o ToText(backgroundImg) \o UrlClose)
                      ELSE Str(<<>>)
    IN  imageStyle

Render ==
    /\ style' = App(storage)
    /\ UNCHANGED <<storage, pc, opOf, inflight, settled, due, now, display>>

NextApp ==
    \/ \E k \in StorageKeys : \E s \in Writable(k) : SetItem(k, s)
    \/ \E k \in StorageKeys : RemoveItem(k)
    \/ Render

SpecApp == Init /\ [][NextApp]_vars

\* C10: the background image is optional: a render while the background
\* URL key is unset or holds the empty string applies the empty style, and
\* a render while a non-empty URL is stored applies url(<that URL>) ....
C10_BackgroundOptional ==
    [][style' # style =>
          LET backgroundImg == storage[BackgroundName] IN
          IF Truthy(backgroundImg)
          THEN style' = Str(UrlOpen \o backgroundImg.val \o UrlClose)
          ELSE style' = Str(<<>>)]_vars

====
